---- MODULE Spec2Model ----
(***************************************************************************)
(* A model of thrasher.c, the memory-bus thrasher.                         *)
(*                                                                         *)
(* The main program (thrasher.c lines 1-167) is modelled as a state        *)
(* machine whose program counter follows main(): argument handling,        *)
(* allocation, the in-place shuffle of the circular doubly-linked list,    *)
(* the timed walk, the report and the release.  Entries are slots          *)
(* 0..num_entries-1 of the buffer; a pointer buf_ll + k is the slot        *)
(* index k.  The build is either LP64 or ILP32 (long_bytes), which sets the *)
(* width of the iteration count and of the report arithmetic.              *)
(*                                                                         *)
(* Fixed-width integers are little-endian sequences of base-256 limbs, so  *)
(* that a 64-bit or a 32-bit value keeps its width exactly.                *)
(***************************************************************************)
EXTENDS Integers, Sequences, FiniteSets, TLC

(***************************************************************************)
(* Bounds of the model                                                     *)
(***************************************************************************)
\* The buffer holds between two and MaxEntries cache lines in Spec.
MaxEntries == 5
\* The shuffle alone (ShuffleSpec) is explored up to MaxShuffleEntries.
MaxShuffleEntries == 7
\* Runs under fairness (FairSpec) have up to MaxLiveEntries cache lines.
MaxLiveEntries == 4
\* The outer pass counter is followed up to PassCap passes.
PassCap == 3
\* The payload word is tracked modulo PayloadMod.
PayloadMod == 4

(***************************************************************************)
(* Program constants                                                       *)
(***************************************************************************)
LINE_SIZE == 64
\* sizeof(struct entry*) on the 64-bit target of the main program
PtrSize == 8
\* sizeof(int)
SizeofInt == 4
\* sizeof(struct entry): two pointers and an int, padded by aligned(LINE_SIZE)
SizeofEntry ==
    ((2 * PtrSize + SizeofInt + LINE_SIZE - 1) \div LINE_SIZE) * LINE_SIZE
\* offsetof(struct entry, data)
OffsetofData == 2 * PtrSize
\* (L3_SIZE/1024)*4 with L3_SIZE == 12*1024*1024, an int constant expression
KBytesPerPass == ((12 * 1024 * 1024) \div 1024) * 4
\* sizeof(long) of an LP64 build and of an ILP32 build (the i.MX6)
LongBytes64 == 8
LongBytes32 == 4

(***************************************************************************)
(* Fixed-width unsigned arithmetic on limbs                                *)
(***************************************************************************)
Base == 256

Zero(w) == [j \in 1..w |-> 0]

\* x*m + c as Len(x) limbs followed by the carry out of the top limb
RECURSIVE MulAdd(_, _, _)
MulAdd(x, m, c) ==
    IF x = <<>> THEN <<c>>
    ELSE LET t == Head(x) * m + c
         IN  <<t % Base>> \o MulAdd(Tail(x), m, t \div Base)

Low(x, w) == SubSeq(x, 1, w)

\* x*m + c wrapped to the width of x
MulAddWrap(x, m, c) == Low(MulAdd(x, m, c), Len(x))

\* did x*m + c leave the width of x
MulAddOverflows(x, m, c) == MulAdd(x, m, c)[Len(x) + 1] # 0

\* a < b for two values of the same width
RECURSIVE LimbLess(_, _)
LimbLess(a, b) ==
    IF a = <<>> THEN FALSE
    ELSE LET k == Len(a)
         IN  IF a[k] # b[k] THEN a[k] < b[k]
             ELSE LimbLess(SubSeq(a, 1, k - 1), SubSeq(b, 1, k - 1))

\* two's complement negation in the width of x
Negate(x) == MulAddWrap([j \in 1..Len(x) |-> Base - 1 - x[j]], 1, 1)

\* a small natural as a w-limb value
RECURSIVE ToLimbs(_, _)
ToLimbs(v, w) == IF w = 0 THEN <<>> ELSE <<v % Base>> \o ToLimbs(v \div Base, w - 1)

\* LONG_MAX and LONG_MIN converted to the unsigned type of the same width
LONG_MAX(w) == [j \in 1..w |-> IF j = w THEN Base \div 2 - 1 ELSE Base - 1]
LONG_MIN(w) == [j \in 1..w |-> IF j = w THEN Base \div 2 ELSE 0]

(***************************************************************************)
(* strtol(nptr, &endptr, 10)                                               *)
(***************************************************************************)
Digits == <<"0", "1", "2", "3", "4", "5", "6", "7", "8", "9">>
IsDigit(ch) == \E d \in 1..10 : Digits[d] = ch
DigitVal(ch) == (CHOOSE d \in 1..10 : Digits[d] = ch) - 1
IsSpace(ch) == ch = " "
NUL == "NUL"

\* the character at position p of a NUL-terminated string
CharAt(s, p) == IF p <= Len(s) THEN s[p] ELSE NUL

\* first position at or after p that holds no white space
RECURSIVE SkipSpaces(_, _)
SkipSpaces(s, p) == IF IsSpace(CharAt(s, p)) THEN SkipSpaces(s, p + 1) ELSE p

\* first position at or after p that holds no digit
RECURSIVE SkipDigits(_, _)
SkipDigits(s, p) == IF IsDigit(CharAt(s, p)) THEN SkipDigits(s, p + 1) ELSE p

\* magnitude of the digits s[p..q-1] in w limbs, with a sticky overflow flag
RECURSIVE Magnitude(_, _, _, _)
Magnitude(s, p, q, w) ==
    IF q <= p THEN [val |-> Zero(w), over |-> FALSE]
    ELSE LET m == Magnitude(s, p, q - 1, w)
             d == DigitVal(s[q - 1])
         IN  [val  |-> MulAddWrap(m.val, 10, d),
              over |-> m.over \/ MulAddOverflows(m.val, 10, d)]

\* value: the returned long converted to the unsigned type of w bytes
\* endp:  the position *endptr refers to
strtol(s, w) ==
    LET p1   == SkipSpaces(s, 1)
        neg  == CharAt(s, p1) = "-"
        p2   == IF CharAt(s, p1) \in {"-", "+"} THEN p1 + 1 ELSE p1
        p3   == SkipDigits(s, p2)
        m    == Magnitude(s, p2, p3, w)
    IN  IF p3 = p2 THEN [value |-> Zero(w), endp |-> 1]
        ELSE IF neg
             THEN IF m.over \/ LimbLess(LONG_MIN(w), m.val)
                  THEN [value |-> LONG_MIN(w), endp |-> p3]
                  ELSE [value |-> Negate(m.val), endp |-> p3]
             ELSE IF m.over \/ LimbLess(LONG_MAX(w), m.val)
                  THEN [value |-> LONG_MAX(w), endp |-> p3]
                  ELSE [value |-> m.val, endp |-> p3]

\* the test of the iterations argument: TRUE when the argument is refused
InvalidCount(s, w) ==
    LET r == strtol(s, w)
    IN  \/ r.value = LONG_MIN(w)
        \/ r.value = LONG_MAX(w)
        \/ CharAt(s, r.endp) # NUL

(***************************************************************************)
(* Command-line inputs                                                     *)
(***************************************************************************)
\* argv[1]: the pattern selector, or a help flag
Patterns ==
    { <<"s">>, <<"r">>, <<>>, <<"-", "h">>, <<"-", "-", "h", "e", "l", "p">> }

IsHelp(s) == s \in { <<"-", "h">>, <<"-", "-", "h", "e", "l", "p">> }

\* argv[2] in Spec: counts 0..2, the empty string, malformed text, a
\* negative count
RunCounts ==
    { <<"0">>, <<"1">>, <<"2">>, <<>>, <<"a", "b", "c">>, <<"1", "x">>,
      <<"-", "1">>, <<" ", "2">> }

\* argv[2] in ArgSpec: every text of up to three characters of CountChars,
\* and the counts next to the limits of a 32-bit and of a 64-bit long
CountChars == {"0", "1", "9", "-", "+", " ", "a"}
ShortCounts ==
    UNION { [1..len -> CountChars] : len \in 0..3 }
LongCounts ==
    { <<"8", "7", "3", "8", "1">>,
      <<"8", "7", "3", "8", "2">>,
      <<"2", "1", "4", "7", "4", "8", "3", "6", "4", "6">>,
      <<"2", "1", "4", "7", "4", "8", "3", "6", "4", "7">>,
      <<"2", "1", "4", "7", "4", "8", "3", "6", "4", "8">>,
      <<"-", "2", "1", "4", "7", "4", "8", "3", "6", "4", "8">>,
      <<"3", "7", "5", "2", "9", "9", "9", "6", "8", "9", "4", "7", "5", "4", "1">>,
      <<"4", "0", "0", "0", "0", "0", "0", "0", "0", "0", "0", "0", "0", "0", "0">>,
      <<"9", "2", "2", "3", "3", "7", "2", "0", "3", "6", "8", "5", "4", "7", "7",
        "5", "8", "0", "6">>,
      <<"9", "2", "2", "3", "3", "7", "2", "0", "3", "6", "8", "5", "4", "7", "7",
        "5", "8", "0", "7">>,
      <<"9", "2", "2", "3", "3", "7", "2", "0", "3", "6", "8", "5", "4", "7", "7",
        "5", "8", "0", "8">>,
      <<"-", "9", "2", "2", "3", "3", "7", "2", "0", "3", "6", "8", "5", "4", "7",
        "7", "5", "8", "0", "8">>,
      <<"9", "9", "9", "9", "9", "9", "9", "9", "9", "9", "9", "9", "9", "9", "9",
        "9", "9", "9", "9", "9">> }

(***************************************************************************)
(* State                                                                   *)
(***************************************************************************)
VARIABLES
    argv,          \* the arguments after the program name; argc = Len(argv) + 1
    long_bytes,    \* sizeof(long) of the build
    malloc_ok,     \* whether malloc will return a buffer
    clock_fail_at, \* which call of gettimeofday fails (0: none)
    buffer_size,   \* size of the buffer in bytes
    pc,            \* position in main
    status,        \* exit status, -1 while running
    is_seq,
    iterations,    \* unsigned long, as limbs
    buffer,        \* "none", "live", "null" (malloc failed) or "freed"
    prev,          \* buf_ll[e].prev, a slot index, Wild before it is written
    next,          \* buf_ll[e].next
    data,          \* buf_ll[e].data
    i,             \* index of the shuffle loop
    choice,        \* choice of the last shuffle step
    pass,          \* index of the outer walk loop
    idx,           \* index of the inner sequential loop
    curr,          \* cursor of the random walk
    total_kbytes,  \* the reported volume, as limbs (<<>> before the report)
    touched,       \* byte offsets incremented so far in the current pass
    first_order,   \* touched of the first completed pass
    last_order,    \* touched of the last completed pass
    pass_data,     \* data when the current pass began
    shuffled,      \* has a link been written
    accessed,      \* has the walk incremented a payload
    clock_reads,   \* calls of get_ms so far
    frees          \* calls of free so far

vars ==
    << argv, long_bytes, malloc_ok, clock_fail_at, buffer_size, pc, status,
       is_seq, iterations, buffer, prev, next, data, i, choice, pass, idx,
       curr, total_kbytes, touched, first_order, last_order, pass_data,
       shuffled, accessed, clock_reads, frees >>

argc == Len(argv) + 1

\* an indeterminate pointer
Wild == -1

\* int num_entries = (L3_SIZE * 4)/sizeof(struct entry)
NumEntries(bytes) == bytes \div SizeofEntry
num_entries == NumEntries(buffer_size)
Slots == 0..(num_entries - 1)

\* the contents malloc may hand out for the payload words of n entries
Payloads(n) ==
    { [e \in 0..(n - 1) |-> 0], [e \in 0..(n - 1) |-> e % PayloadMod] }

(***************************************************************************)
(* Argument handling, lines 34-53                                          *)
(***************************************************************************)
\* argc >= 2 ? argv[1][0] != 'r' : 1
IsSeq(av) == IF Len(av) + 1 >= 2 THEN CharAt(av[1], 1) # "r" ELSE TRUE

\* the exit status argument handling ends with, or -1 when main goes on
ArgsStatus(av, w) ==
    IF Len(av) + 1 >= 2 /\ IsHelp(av[1]) THEN 1
    ELSE IF Len(av) + 1 >= 3 /\ InvalidCount(av[2], w) THEN 1
    ELSE -1

Args ==
    /\ pc = "args"
    /\ status' = ArgsStatus(argv, long_bytes)
    /\ pc' = IF status' = -1 THEN "malloc" ELSE "exit"
    /\ is_seq' = IF argc >= 2 /\ IsHelp(argv[1]) THEN is_seq ELSE IsSeq(argv)
    /\ iterations' = IF argc >= 3 /\ ~IsHelp(argv[1])
                     THEN strtol(argv[2], long_bytes).value
                     ELSE iterations
    /\ UNCHANGED << argv, long_bytes, malloc_ok, clock_fail_at, buffer_size,
                    buffer, prev, next, data, i, choice, pass, idx, curr,
                    total_kbytes, touched, first_order, last_order, pass_data,
                    shuffled, accessed, clock_reads, frees >>

(***************************************************************************)
(* Allocation, lines 66-71                                                 *)
(***************************************************************************)
\* AfterMalloc without the null check
AfterMallocUnchecked(ok, seq) ==
    [pc |-> IF seq THEN "start" ELSE "link", status |-> -1]

\* where main goes after malloc returned: the null check of line 68
AfterMalloc(ok, seq) ==
    IF ~ok THEN [pc |-> "exit", status |-> 2]
    ELSE [pc |-> IF seq THEN "start" ELSE "link", status |-> -1]

Malloc ==
    /\ pc = "malloc"
    /\ buffer' = IF malloc_ok THEN "live" ELSE "null"
    /\ pc' = AfterMalloc(malloc_ok, is_seq).pc
    /\ status' = AfterMalloc(malloc_ok, is_seq).status
    /\ UNCHANGED << argv, long_bytes, malloc_ok, clock_fail_at, buffer_size,
                    is_seq, iterations, prev, next, data, i, choice, pass,
                    idx, curr, total_kbytes, touched, first_order, last_order,
                    pass_data, shuffled, accessed, clock_reads, frees >>

(***************************************************************************)
(* The circular list and its shuffle, lines 75-134                         *)
(***************************************************************************)
\* lines 78-83: link all entries in sequence
LinkPrev(n) == [e \in 0..(n - 1) |-> IF e = 0 THEN n - 1 ELSE e - 1]
LinkNext(n) == [e \in 0..(n - 1) |-> IF e = n - 1 THEN 0 ELSE e + 1]

Link ==
    /\ pc = "link"
    /\ prev' = LinkPrev(num_entries)
    /\ next' = LinkNext(num_entries)
    /\ i' = 0
    /\ shuffled' = TRUE
    /\ pc' = "shuffle"
    /\ UNCHANGED << argv, long_bytes, malloc_ok, clock_fail_at, buffer_size,
                    status, is_seq, iterations, buffer, data, choice, pass,
                    idx, curr, total_kbytes, touched, first_order, last_order,
                    pass_data, accessed, clock_reads, frees >>

\* A buffer image b is a record of the three fields of every slot.
\* lines 97-108: the element before i and the element after choice
RepairOuter(b, ii, c, before_i, after_choice) ==
    IF before_i # after_choice
    THEN [b EXCEPT !.next[before_i] = c, !.prev[after_choice] = ii]
    ELSE [b EXCEPT !.next[after_choice] = b.prev[after_choice],
                   !.prev[after_choice] = b.next[after_choice]]

\* lines 109-120: the element after i and the element before choice
RepairInner(b, ii, c, after_i, before_choice) ==
    IF after_i # before_choice
    THEN [b EXCEPT !.prev[after_i] = c, !.next[before_choice] = ii]
    ELSE [b EXCEPT !.next[after_i] = b.prev[after_i],
                   !.prev[after_i] = b.next[after_i]]

\* SwapSlots exchanging the links of the two slots but not their payload
SwapSlotsLinksOnly(b, ii, c, curr_e, choice_e) ==
    LET b1 == [b  EXCEPT !.prev[c] = curr_e.prev, !.next[c] = curr_e.next]
    IN  [b1 EXCEPT !.prev[ii] = choice_e.prev, !.next[ii] = choice_e.next]

\* lines 122-123: buf_ll[choice] = curr_e; buf_ll[i] = choice_e
SwapSlots(b, ii, c, curr_e, choice_e) ==
    LET b1 == [b  EXCEPT !.prev[c] = curr_e.prev, !.next[c] = curr_e.next,
                         !.data[c] = curr_e.data]
    IN  [b1 EXCEPT !.prev[ii] = choice_e.prev, !.next[ii] = choice_e.next,
                   !.data[ii] = choice_e.data]

\* UndoSelfLoops without the repair of lines 126-133
UndoSelfLoopsSkipped(b, ii, c) == b

\* UndoSelfLoops repairing the next links only, lines 128 and 131 left out
UndoSelfLoopsNextOnly(b, ii, c) ==
    LET b1 == IF b.next[ii] = ii THEN [b EXCEPT !.next[ii] = c] ELSE b
    IN  IF b1.next[c] = c THEN [b1 EXCEPT !.next[c] = ii] ELSE b1

\* lines 126-133: undo the self-loops the slot swap created
UndoSelfLoops(b, ii, c) ==
    LET b1 == IF b.next[ii] = ii
              THEN [b EXCEPT !.next[ii] = c, !.prev[c] = ii]
              ELSE b
    IN  IF b1.next[c] = c
        THEN [b1 EXCEPT !.prev[ii] = c, !.next[c] = ii]
        ELSE b1

\* lines 87-133: one iteration of the shuffle loop at index ii with choice c
ShuffleBody(b, ii, c) ==
    LET choice_e      == [prev |-> b.prev[c], next |-> b.next[c], data |-> b.data[c]]
        curr_e        == [prev |-> b.prev[ii], next |-> b.next[ii], data |-> b.data[ii]]
        before_i      == curr_e.prev
        after_choice  == choice_e.next
        after_i       == curr_e.next
        before_choice == choice_e.prev
        b1 == RepairOuter(b, ii, c, before_i, after_choice)
        b2 == RepairInner(b1, ii, c, after_i, before_choice)
        b3 == SwapSlots(b2, ii, c, curr_e, choice_e)
    IN  UndoSelfLoops(b3, ii, c)

\* the values of rand() % (num_entries - i) + i
Choices(n, ii) == ii..(n - 1)

ShuffleStep ==
    /\ pc = "shuffle"
    /\ i < num_entries - 1
    /\ \E c \in Choices(num_entries, i) :
         LET b == ShuffleBody([prev |-> prev, next |-> next, data |-> data], i, c)
         IN  /\ choice' = c
             /\ prev' = b.prev
             /\ next' = b.next
             /\ data' = b.data
    /\ i' = i + 1
    /\ UNCHANGED << argv, long_bytes, malloc_ok, clock_fail_at, buffer_size,
                    pc, status, is_seq, iterations, buffer, pass, idx, curr,
                    total_kbytes, touched, first_order, last_order, pass_data,
                    shuffled, accessed, clock_reads, frees >>

\* line 85: the loop ends when i reaches num_entries - 1
ShuffleDone ==
    /\ pc = "shuffle"
    /\ ~(i < num_entries - 1)
    /\ pc' = "start"
    /\ UNCHANGED << argv, long_bytes, malloc_ok, clock_fail_at, buffer_size,
                    status, is_seq, iterations, buffer, prev, next, data, i,
                    choice, pass, idx, curr, total_kbytes, touched,
                    first_order, last_order, pass_data, shuffled, accessed,
                    clock_reads, frees >>

(***************************************************************************)
(* The timed walk, lines 137-155                                           *)
(***************************************************************************)
\* get_ms, lines 24-31: the call number k fails when the clock does
ClockFails(k) == clock_fail_at = k

\* line 137, and line 147 in random mode
Start ==
    /\ pc = "start"
    /\ clock_reads' = clock_reads + 1
    /\ IF ClockFails(clock_reads + 1)
       THEN /\ pc' = "exit"
            /\ status' = 3
            /\ UNCHANGED << curr, pass >>
       ELSE /\ pc' = "loop"
            /\ status' = status
            /\ curr' = IF is_seq THEN curr ELSE 0
            /\ pass' = 0
    /\ UNCHANGED << argv, long_bytes, malloc_ok, clock_fail_at, buffer_size,
                    is_seq, iterations, buffer, prev, next, data, i, choice,
                    idx, total_kbytes, touched, first_order, last_order,
                    pass_data, shuffled, accessed, frees >>

\* KeepGoing without the test of argc
KeepGoingCountOnly(p, iters, ac) == LimbLess(ToLimbs(p, Len(iters)), iters)

\* KeepGoing with i <= iterations
KeepGoingInclusive(p, iters, ac) ==
    ~LimbLess(iters, ToLimbs(p, Len(iters))) \/ ac <= 2

\* the condition of the outer loops, lines 140 and 148:
\* i < iterations || argc <= 2
KeepGoing(p, iters, ac) == LimbLess(ToLimbs(p, Len(iters)), iters) \/ ac <= 2

\* the outer loop tests its condition and enters the next pass or leaves
LoopTest ==
    /\ pc = "loop"
    /\ IF KeepGoing(pass, iterations, argc)
       THEN /\ argc <= 2 \/ pass < PassCap
            /\ pc' = "pass"
            /\ idx' = 0
            /\ touched' = <<>>
            /\ pass_data' = data
       ELSE /\ pc' = "end"
            /\ UNCHANGED << idx, touched, pass_data >>
    /\ UNCHANGED << argv, long_bytes, malloc_ok, clock_fail_at, buffer_size,
                    status, is_seq, iterations, buffer, prev, next, data, i,
                    choice, pass, curr, total_kbytes, first_order, last_order,
                    shuffled, accessed, clock_reads, frees >>

\* i++ of the outer loop; with no count given the value of i is never
\* looked at again and is followed only up to PassCap
NextPass(p, ac) == IF ac <= 2 /\ p >= PassCap THEN p ELSE p + 1

\* the byte offset of buffer[e].data from the start of the buffer
DataOffset(e) == e * SizeofEntry + OffsetofData

\* SeqCount with the inner loop running to i <= bound
SeqCountInclusive(bytes) == bytes \div LINE_SIZE + 1

\* the bound of the inner sequential loop, (L3_SIZE * 4) / LINE_SIZE
SeqCount(bytes) == bytes \div LINE_SIZE

\* lines 141-143: buffer[i].data++
SeqAccess ==
    /\ pc = "pass"
    /\ is_seq
    /\ idx < SeqCount(buffer_size)
    /\ data' = [data EXCEPT ![idx] = (@ + 1) % PayloadMod]
    /\ touched' = Append(touched, DataOffset(idx))
    /\ accessed' = TRUE
    /\ idx' = idx + 1
    /\ UNCHANGED << argv, long_bytes, malloc_ok, clock_fail_at, buffer_size,
                    pc, status, is_seq, iterations, buffer, prev, next, i,
                    choice, pass, curr, total_kbytes, first_order, last_order,
                    pass_data, shuffled, clock_reads, frees >>

\* line 141: the inner loop ends, the outer loop increments i
SeqPassEnd ==
    /\ pc = "pass"
    /\ is_seq
    /\ ~(idx < SeqCount(buffer_size))
    /\ pass' = NextPass(pass, argc)
    /\ last_order' = touched
    /\ first_order' = IF pass = 0 THEN touched ELSE first_order
    /\ pc' = "loop"
    /\ UNCHANGED << argv, long_bytes, malloc_ok, clock_fail_at, buffer_size,
                    status, is_seq, iterations, buffer, prev, next, data, i,
                    choice, idx, curr, total_kbytes, touched, pass_data,
                    shuffled, accessed, clock_reads, frees >>

\* Walk as a while loop, the cursor tested before the first increment
WalkPreTest ==
    /\ pc = "pass"
    /\ ~is_seq
    /\ IF curr # 0
       THEN /\ data' = [data EXCEPT ![curr] = (@ + 1) % PayloadMod]
            /\ touched' = Append(touched, DataOffset(curr))
            /\ accessed' = TRUE
            /\ curr' = next[curr]
            /\ UNCHANGED << pc, pass, first_order, last_order >>
       ELSE /\ pc' = "loop"
            /\ pass' = NextPass(pass, argc)
            /\ last_order' = touched
            /\ first_order' = IF pass = 0 THEN touched ELSE first_order
            /\ UNCHANGED << data, touched, accessed, curr >>
    /\ UNCHANGED << argv, long_bytes, malloc_ok, clock_fail_at, buffer_size,
                    status, is_seq, iterations, buffer, prev, next, i, choice,
                    idx, total_kbytes, pass_data, shuffled, clock_reads,
                    frees >>

\* lines 149-152: one round of the do-while; the pass ends when the cursor
\* is back at the buffer
Walk ==
    /\ pc = "pass"
    /\ ~is_seq
    /\ data' = [data EXCEPT ![curr] = (@ + 1) % PayloadMod]
    /\ touched' = Append(touched, DataOffset(curr))
    /\ accessed' = TRUE
    /\ curr' = next[curr]
    /\ IF curr' # 0
       THEN UNCHANGED << pc, pass, first_order, last_order >>
       ELSE /\ pc' = "loop"
            /\ pass' = NextPass(pass, argc)
            /\ last_order' = touched'
            /\ first_order' = IF pass = 0 THEN touched' ELSE first_order
    /\ UNCHANGED << argv, long_bytes, malloc_ok, clock_fail_at, buffer_size,
                    status, is_seq, iterations, buffer, prev, next, i, choice,
                    idx, total_kbytes, pass_data, shuffled, clock_reads,
                    frees >>

\* line 155
End ==
    /\ pc = "end"
    /\ clock_reads' = clock_reads + 1
    /\ IF ClockFails(clock_reads + 1)
       THEN pc' = "exit" /\ status' = 3
       ELSE pc' = "report" /\ status' = status
    /\ UNCHANGED << argv, long_bytes, malloc_ok, clock_fail_at, buffer_size,
                    is_seq, iterations, buffer, prev, next, data, i, choice,
                    pass, idx, curr, total_kbytes, touched, first_order,
                    last_order, pass_data, shuffled, accessed, frees >>

(***************************************************************************)
(* Report and release, lines 157-166                                       *)
(***************************************************************************)
\* (L3_SIZE/1024)*4*iterations, evaluated in unsigned long; the value is
\* then converted to double and printed, which is not modelled
TotalKBytes(iters) == MulAddWrap(iters, KBytesPerPass, 0)

Report ==
    /\ pc = "report"
    /\ total_kbytes' = TotalKBytes(iterations)
    /\ pc' = "free"
    /\ UNCHANGED << argv, long_bytes, malloc_ok, clock_fail_at, buffer_size,
                    status, is_seq, iterations, buffer, prev, next, data, i,
                    choice, pass, idx, curr, touched, first_order, last_order,
                    pass_data, shuffled, accessed, clock_reads, frees >>

Free ==
    /\ pc = "free"
    /\ buffer' = "freed"
    /\ frees' = frees + 1
    /\ pc' = "exit"
    /\ status' = 0
    /\ UNCHANGED << argv, long_bytes, malloc_ok, clock_fail_at, buffer_size,
                    is_seq, iterations, prev, next, data, i, choice, pass,
                    idx, curr, total_kbytes, touched, first_order, last_order,
                    pass_data, shuffled, accessed, clock_reads >>

\* the report arithmetic applied to a count the argument check accepted;
\* nothing between line 49 and line 158 writes iterations
ApplyReport ==
    /\ pc = "malloc"
    /\ total_kbytes' = TotalKBytes(iterations)
    /\ pc' = "reported"
    /\ UNCHANGED << argv, long_bytes, malloc_ok, clock_fail_at, buffer_size,
                    status, is_seq, iterations, buffer, prev, next, data, i,
                    choice, pass, idx, curr, touched, first_order, last_order,
                    pass_data, shuffled, accessed, clock_reads, frees >>

(***************************************************************************)
(* Specifications                                                          *)
(***************************************************************************)
\* the state of main before its first statement, for a buffer of n lines
Entry(av, w, n, d) ==
    /\ argv = av
    /\ long_bytes = w
    /\ buffer_size = n * LINE_SIZE
    /\ pc = "args"
    /\ status = -1
    /\ is_seq = TRUE
    /\ iterations = Zero(w)
    /\ buffer = "none"
    /\ prev = [e \in 0..(n - 1) |-> Wild]
    /\ next = [e \in 0..(n - 1) |-> Wild]
    /\ data = d
    /\ i = 0
    /\ choice = Wild
    /\ pass = 0
    /\ idx = 0
    /\ curr = Wild
    /\ total_kbytes = <<>>
    /\ touched = <<>>
    /\ first_order = <<>>
    /\ last_order = <<>>
    /\ pass_data = d
    /\ shuffled = FALSE
    /\ accessed = FALSE
    /\ clock_reads = 0
    /\ frees = 0

CommandLines ==
    { <<>> } \cup { <<p>> : p \in Patterns }
             \cup { <<p, c>> : p \in Patterns, c \in RunCounts }

\* the whole program on an LP64 build
Init ==
    \E av \in CommandLines, n \in 2..MaxEntries :
      \E d \in Payloads(n) :
        /\ Entry(av, LongBytes64, n, d)
        /\ malloc_ok \in BOOLEAN
        /\ clock_fail_at \in 0..2

Next ==
    \/ Args
    \/ Malloc
    \/ Link
    \/ ShuffleStep
    \/ ShuffleDone
    \/ Start
    \/ LoopTest
    \/ SeqAccess
    \/ SeqPassEnd
    \/ Walk
    \/ End
    \/ Report
    \/ Free

Spec == Init /\ [][Next]_vars

\* the runs in which malloc and the clock succeed
LiveCommandLines ==
    { <<>>, << <<"s">> >>, << <<"r">> >> }
        \cup { <<p, c>> : p \in { <<"s">>, <<"r">> },
                          c \in { <<"0">>, <<"1">>, <<"2">>, <<>> } }

LiveInit ==
    \E av \in LiveCommandLines, n \in 2..MaxLiveEntries :
        /\ Entry(av, LongBytes64, n, [e \in 0..(n - 1) |-> e % PayloadMod])
        /\ malloc_ok = TRUE
        /\ clock_fail_at = 0

\* main is one thread that runs until it returns
FairSpec == LiveInit /\ [][Next]_vars /\ WF_vars(Next)

\* the shuffle alone, from random mode with the buffer allocated
ShuffleInit ==
    \E n \in 2..MaxShuffleEntries :
      \E d \in Payloads(n) :
        /\ Entry(<< <<"r">> >>, LongBytes64, n, d)
        /\ malloc_ok = TRUE
        /\ clock_fail_at = 0

ShuffleNext ==
    \/ Args
    \/ Malloc
    \/ Link
    \/ ShuffleStep
    \/ ShuffleDone

ShuffleSpec == ShuffleInit /\ [][ShuffleNext]_vars

\* the argument check and the report arithmetic over the count texts
ArgInit ==
    \E c \in ShortCounts \cup LongCounts, w \in {LongBytes32, LongBytes64} :
        /\ Entry(<< <<"s">>, c >>, w, 2, [e \in 0..1 |-> 0])
        /\ malloc_ok = TRUE
        /\ clock_fail_at = 0

ArgNext ==
    \/ Args
    \/ ApplyReport

ArgSpec == ArgInit /\ [][ArgNext]_vars

(***************************************************************************)
(* Properties of the shuffle                                               *)
(***************************************************************************)
\* the entry reached from e by following f for k steps
RECURSIVE Follow(_, _, _)
Follow(f, e, k) == IF k = 0 THEN e ELSE Follow(f, f[e], k - 1)

\* f links the n slots into one cycle
SingleCycle(f, n) ==
    \A e \in 0..(n - 1) :
        /\ Follow(f, e, n) = e
        /\ \A k \in 1..(n - 1) : Follow(f, e, k) \in (0..(n - 1)) \ {e}
        /\ Cardinality({ Follow(f, e, k) : k \in 1..(n - 1) }) = n - 1

\* the index of the shuffle step that ran last
LastI == i - 1

\* a shuffle step has run and moved an entry
Stepped == pc = "shuffle" /\ LastI >= 0 /\ choice # LastI

\* C1: after the initial linking and after every iteration of the shuffle
\* loop the next links form exactly one cycle over all entries: following
\* next from any entry comes back after exactly num_entries steps, through
\* the num_entries - 1 other entries once each.
C1_SingleCycle == shuffled => SingleCycle(next, num_entries)

\* a step swapped two entries that are neighbours in the chain
C1_Witness ==
    /\ Stepped
    /\ num_entries >= 4
    /\ next[LastI] = choice \/ prev[LastI] = choice

\* C2: after the initial linking and after every iteration of the shuffle
\* loop prev is the inverse of next: e.next.prev = e and e.prev.next = e
\* for every entry e.
C2_Inverse ==
    shuffled => \A e \in Slots : /\ next[e] \in Slots
                                 /\ prev[e] \in Slots
                                 /\ prev[next[e]] = e
                                 /\ next[prev[e]] = e

\* a step swapped two entries with one entry between them
C2_Witness ==
    /\ Stepped
    /\ num_entries >= 4
    /\ next[next[LastI]] = choice \/ next[next[choice]] = LastI

\* the transposition of slots a and b
Transpose(a, b, e) == IF e = a THEN b ELSE IF e = b THEN a ELSE e

\* C10: a shuffle step at index i with choice c in i..num_entries-1
\* exchanges the chain positions of slots i and c and nothing else: with t
\* the transposition of i and c, next becomes t o next o t, prev becomes
\* t o prev o t, the payloads of the two slots are exchanged, and nothing
\* changes when c = i.
C10_StepIsConjugation ==
    [][ (pc = "shuffle" /\ i' = i + 1) =>
          /\ i \in 0..(num_entries - 2)
          /\ choice' \in i..(num_entries - 1)
          /\ next' = [e \in Slots |-> Transpose(i, choice', next[Transpose(i, choice', e)])]
          /\ prev' = [e \in Slots |-> Transpose(i, choice', prev[Transpose(i, choice', e)])]
          /\ data' = [e \in Slots |-> data[Transpose(i, choice', e)]]
          /\ choice' = i => (next' = next /\ prev' = prev /\ data' = data)
      ]_vars

\* a step exchanged two slots that hold different payloads
C10_Witness ==
    /\ Stepped
    /\ num_entries >= 6
    /\ data[LastI] # data[choice]

(***************************************************************************)
(* Properties of the walk                                                  *)
(***************************************************************************)
\* the entries whose payload the offsets of t lie in
EntryOf(offset) == offset \div SizeofEntry
Entries(t) == [j \in 1..Len(t) |-> EntryOf(t[j])]
EntrySet(t) == { EntryOf(t[j]) : j \in 1..Len(t) }

Bump(v) == (v + 1) % PayloadMod

\* C3, the state part: a pass of the random walk starts at entry 0, follows
\* next, never meets an entry twice, and is over after num_entries steps
\* with the cursor back at entry 0 and every payload incremented once; every
\* pass takes the order of the first pass.
RandomPassInv ==
    (~is_seq /\ pc \in {"loop", "pass", "end", "report", "free"}) =>
        /\ pc = "pass" =>
             /\ Len(touched) <= num_entries - 1
             /\ touched = <<>> => curr = 0
             /\ touched # <<>> => Entries(touched)[1] = 0 /\ curr # 0
             /\ curr \in Slots \ EntrySet(touched)
             /\ Cardinality(EntrySet(touched)) = Len(touched)
             /\ \A j \in 1..Len(touched) :
                  /\ touched[j] = DataOffset(Entries(touched)[j])
                  /\ next[Entries(touched)[j]] =
                       IF j < Len(touched) THEN Entries(touched)[j + 1] ELSE curr
             /\ \A e \in Slots :
                  data[e] = IF e \in EntrySet(touched) THEN Bump(pass_data[e])
                            ELSE pass_data[e]
        /\ pc # "pass" => curr = 0
        /\ (pc # "pass" /\ pass >= 1) =>
             /\ Len(last_order) = num_entries
             /\ EntrySet(last_order) = Slots
             /\ Entries(last_order)[1] = 0
             /\ last_order = first_order
             /\ \A e \in Slots : data[e] = Bump(pass_data[e])

\* C3, the step part: the walk writes no link
WalkKeepsLinks == pc \in {"loop", "pass"} => next' = next /\ prev' = prev

\* C3: each pass of the random walk starts at entry 0, increments the
\* payload of every entry exactly once, never revisits an entry, ends with
\* the cursor back at entry 0 after exactly num_entries steps, and leaves
\* every link alone, so that all passes take the same order.
C3_RandomWalk ==
    /\ []RandomPassInv
    /\ [][WalkKeepsLinks]_vars

\* two passes over a shuffled chain are complete
C3_Witness ==
    /\ ~is_seq
    /\ pc = "loop"
    /\ pass = 2
    /\ num_entries >= 4
    /\ next # LinkNext(num_entries)

\* C4 as the claim states it: a sequential pass touches N/LINE_SIZE distinct
\* offsets inside the buffer in strictly ascending order, each of them on a
\* line boundary, and starts over at the first line for every pass.
C4_Original ==
    (is_seq /\ pc \in {"loop", "pass", "end", "report", "free"}) =>
        /\ pc = "pass" =>
             /\ Len(touched) = idx
             /\ \A j \in 1..Len(touched) :
                  /\ touched[j] % LINE_SIZE = 0
                  /\ touched[j] < buffer_size
                  /\ \A k \in 1..(j - 1) : touched[k] < touched[j]
        /\ (pc # "pass" /\ pass >= 1) =>
             /\ Len(last_order) = buffer_size \div LINE_SIZE
             /\ last_order[1] = 0

\* C4 as amended: a sequential pass over a buffer of N bytes, N a multiple
\* of LINE_SIZE, touches N/LINE_SIZE offsets, one in each line, in strictly
\* ascending order, each once and inside the buffer; each touched offset is
\* the payload word of a line-aligned entry, OffsetofData bytes after the
\* line boundary; the index restarts at the first line for every pass.
C4_SeqPass ==
    (is_seq /\ pc \in {"loop", "pass", "end", "report", "free"}) =>
        /\ buffer_size % LINE_SIZE = 0
        /\ pc = "pass" =>
             /\ Len(touched) = idx
             /\ idx <= buffer_size \div LINE_SIZE
             /\ \A j \in 1..Len(touched) :
                  /\ touched[j] \div LINE_SIZE = j - 1
                  /\ touched[j] % LINE_SIZE = OffsetofData
                  /\ touched[j] + SizeofInt <= buffer_size
                  /\ \A k \in 1..(j - 1) : touched[k] < touched[j]
             /\ \A e \in Slots :
                  data[e] = IF e < idx THEN Bump(pass_data[e]) ELSE pass_data[e]
        /\ (pc # "pass" /\ pass >= 1) =>
             /\ Len(last_order) = buffer_size \div LINE_SIZE
             /\ last_order = first_order
             /\ last_order[1] \div LINE_SIZE = 0

\* a sequential pass has touched every line of the buffer
C4_Witness ==
    /\ is_seq
    /\ pc = "pass"
    /\ pass = 1
    /\ num_entries >= 3
    /\ Len(touched) = num_entries

(***************************************************************************)
(* Properties of the run                                                   *)
(***************************************************************************)
\* the run has not come to the second clock read, the report, the release
\* or a normal exit
NotFinishing == pc \notin {"end", "report", "free"} /\ status # 0

\* no iteration count on the command line
CountAbsent == argc <= 2

\* the iteration count is given as zero
CountZero == argc >= 3 /\ ~IsHelp(argv[1]) /\ argv[2] = <<"0">>

\* C5 as the claim states it: with the count absent or given as zero the
\* program never reaches the report, the release or a normal exit.
C5_Original == (CountAbsent \/ CountZero) => NotFinishing

\* C5 as amended: with the iteration count absent the run is unbounded: in
\* either pattern the program never reaches the report, the release or a
\* normal exit, and once in the walk it keeps completing passes and
\* starting new ones for ever.
C5_Unbounded ==
    /\ [](CountAbsent => NotFinishing)
    /\ (CountAbsent /\ pc = "loop") ~> (pc = "pass" /\ touched = <<>>)
    /\ (CountAbsent /\ pc = "pass") ~> (pc = "loop" /\ touched # <<>>)

\* with no count given, more passes than the counter is followed for
C5_Witness ==
    /\ CountAbsent
    /\ pc = "pass"
    /\ pass = PassCap
    /\ touched = <<>>
    /\ data # pass_data \/ accessed

\* the text s is the complete decimal text of a count between 0 and the
\* LONG_MAX of a long of w bytes
IsCountText(s, w) ==
    /\ Len(s) >= 1
    /\ \A j \in 1..Len(s) : IsDigit(s[j])
    /\ ~Magnitude(s, 1, Len(s) + 1, w).over
    /\ ~LimbLess(LONG_MAX(w), Magnitude(s, 1, Len(s) + 1, w).val)

\* C6: an iterations argument that is not the complete decimal text of a
\* non-negative integer in range makes the program exit with status 1
\* before the buffer is allocated, with no shuffle step and no walk.
C6_Original ==
    (pc # "args" /\ argc >= 3 /\ ~IsHelp(argv[1])
       /\ ~IsCountText(argv[2], long_bytes)) =>
        /\ pc = "exit"
        /\ status = 1
        /\ buffer = "none"
        /\ ~shuffled
        /\ ~accessed

\* k * KBytesPerPass with no limit of width: the limbs of the wrapped
\* product followed by what was carried out of them
ExactKBytes(iters) == MulAdd(iters, KBytesPerPass, 0)

\* C7: for every accepted count the reported volume is the exact product of
\* the count and the buffer size, the fixed-width product not wrapping.
C7_Original ==
    pc = "reported" =>
        total_kbytes \o <<0>> = ExactKBytes(iterations)

\* the steps that write the buffer or read the clock leave these unchanged
\* unless the buffer is live before and after
BufferUse ==
    (next' # next \/ prev' # prev \/ data' # data
       \/ shuffled' # shuffled \/ accessed' # accessed) =>
        (buffer = "live" /\ buffer' = "live")

\* the state part of C8
AllocInv ==
    /\ buffer = "null" =>
         /\ pc = "exit"
         /\ status = 2
         /\ ~shuffled
         /\ ~accessed
         /\ clock_reads = 0
         /\ frees = 0
    /\ ~malloc_ok => buffer \in {"none", "null"}
    /\ (shuffled \/ accessed \/ clock_reads > 0) => buffer \in {"live", "freed"}
    /\ frees <= 1
    /\ frees = 1 <=> buffer = "freed"
    /\ status = 2 <=> buffer = "null"

\* C8: when malloc fails the program exits with status 2 without a shuffle
\* step, a clock read, a walk access or a release; every shuffle write and
\* every walk access happens while the buffer is allocated and not yet
\* released, and the buffer is released at most once.
C8_AllocationGuard ==
    /\ []AllocInv
    /\ [][BufferUse]_vars

\* malloc failed in random mode
C8_Witness ==
    /\ buffer = "null"
    /\ ~is_seq
    /\ status = 2

\* a count the argument check accepts and that the model follows to the end
SmallCount ==
    /\ argc >= 3
    /\ ~IsHelp(argv[1])
    /\ ~InvalidCount(argv[2], long_bytes)
    /\ ~LimbLess(ToLimbs(PassCap, long_bytes), strtol(argv[2], long_bytes).value)

\* the run ended normally
Exit0 == pc = "exit" /\ status = 0

\* the outer loop is left only between passes
PassBoundary ==
    /\ idx \in {0, SeqCount(buffer_size)}
    /\ pass = 0 => ~accessed
    /\ pass >= 1 => Len(last_order) = num_entries /\ touched = last_order

\* C9: with a valid count k given, allocation and the clock succeeding, the
\* run ends with exit status 0 after exactly k complete passes, in either
\* pattern and for every shuffle; for k = 0 no payload is touched; the
\* count is tested only between passes.
C9_Terminates ==
    /\ (pc = "args" /\ SmallCount /\ malloc_ok /\ clock_fail_at = 0) ~> Exit0
    /\ [](Exit0 => /\ ToLimbs(pass, long_bytes) = iterations
                   /\ iterations = Zero(long_bytes) => ~accessed
                   /\ total_kbytes = TotalKBytes(iterations))
    /\ [](pc \in {"end", "report", "free"} \/ Exit0 => PassBoundary)

\* a random run of two passes ended normally
C9_Witness ==
    /\ Exit0
    /\ pass = 2
    /\ ~is_seq
    /\ num_entries >= 3

====
